---- MODULE Spec2Model ----
(***************************************************************************)
(* progenitor_fixes.py: the script that patches openapi.json (anyOf rename *)
(* and allOf/oneOf expansion) and, under --lib-fix, splits the generated   *)
(* near-openapi/src/lib.rs into a types crate and a client crate.          *)
(*                                                                         *)
(* A JSON document on disk is a tree of cells; json.load puts it on a heap *)
(* of cells addressed by number, so that the object sharing the expansion  *)
(* creates (itertools.product hands out the same dict objects to several   *)
(* combinations) is part of the state.  A text is a sequence of symbols;   *)
(* a symbol is one character or one lexeme, and str.find, slicing and len  *)
(* count the characters of the symbols.                                    *)
(***************************************************************************)
EXTENDS Integers, Sequences, FiniteSets, TLC

VARIABLES
    pc,                     \* position of the script, or the exception that ended it
    argv,                   \* sys.argv
    runs,                   \* invocations started so far
    io,                     \* this invocation so far: <<"r" or "w", path>> for a file
                            \* opened, <<"print", line>> for a line printed
    openapi_json,           \* file openapi.json: <<>> if missing, <<tree>> otherwise
    heap,                   \* the cells json.load and the expansion have allocated
    spec,                   \* address of the loaded document (0 before the load)
    todo,                   \* pending calls of iterate_nested_json_for_loop, first next
    all_lib_rs_file,        \* file ./near-openapi/src/lib.rs: <<>> or <<text>>
    readme_md,              \* file ./README.md: <<>> or <<lines>>
    all_cargo_toml_file,    \* file ./near-openapi/Cargo.toml: <<>> or <<text>>
    dirs,                   \* the directories that exist
    client_lib_rs_file,     \* file ./near-openapi-client/src/lib.rs
    types_lib_rs_file,      \* file ./near-openapi-types/src/lib.rs
    client_cargo_toml_file, \* file ./near-openapi-client/Cargo.toml
    types_cargo_toml_file,  \* file ./near-openapi-types/Cargo.toml
    lib_rs, types_index, client_index, dependencies, types, client,
    cuts,                   \* the pairs of indices the removals of lines 89-104 found
    types_lib_rs, client_lib_rs,
    cargo_toml, client_cargo_toml, types_cargo_toml

jsonVars == <<openapi_json, heap, spec, todo>>
inFiles == <<all_lib_rs_file, readme_md, all_cargo_toml_file>>
outFiles == <<dirs, client_lib_rs_file, types_lib_rs_file,
              client_cargo_toml_file, types_cargo_toml_file>>
locals == <<lib_rs, types_index, client_index, dependencies, types, client, cuts,
            types_lib_rs, client_lib_rs, cargo_toml, client_cargo_toml,
            types_cargo_toml>>
libVars == <<inFiles, outFiles, locals>>
vars == <<pc, argv, runs, io, jsonVars, libVars>>

(***************************************************************************)
(* Bounds of the model.                                                    *)
(***************************************************************************)
MaxNodes == 4           \* schema objects in an enumerated input schema
MaxRuns == 2            \* invocations of the script in one behaviour
MaxChunks == 3          \* pieces of an enumerated generated source
MaxDecls == 2           \* declarations of an enumerated types module

(***************************************************************************)
(* Generic helpers.                                                        *)
(***************************************************************************)
None == <<>>
Some(x) == <<x>>

Range(s) == {s[i] : i \in 1..Len(s)}

\* position of the first x in s, 0 when absent
IndexOf(s, x) ==
    IF \E i \in 1..Len(s) : s[i] = x
    THEN CHOOSE i \in 1..Len(s) : s[i] = x /\ \A j \in 1..(i - 1) : s[j] # x
    ELSE 0

RemoveAt(s, i) == SubSeq(s, 1, i - 1) \o SubSeq(s, i + 1, Len(s))

\* the element of a one-element set; Only({e(x) : x \in {v}}) is e(v) with
\* v evaluated once
Only(S) == CHOOSE x \in S : TRUE

\* the concatenation of the sequences in ss
RECURSIVE FlattenTo(_, _)
FlattenTo(ss, k) == IF k = 0 THEN <<>> ELSE FlattenTo(ss, k - 1) \o ss[k]
Flatten(ss) == Only({FlattenTo(v, Len(v)) : v \in {ss}})

(***************************************************************************)
(* JSON values.  On disk the children vs of a cell are cells; on the heap  *)
(* they are addresses.                                                     *)
(***************************************************************************)
Str(s) == [t |-> "str", ks |-> <<>>, vs |-> <<>>, s |-> s]
Arr(vs) == [t |-> "list", ks |-> <<>>, vs |-> vs, s |-> ""]
Obj(ks, vs) == [t |-> "dict", ks |-> ks, vs |-> vs, s |-> ""]

IsDict(c) == c.t = "dict"
HasKey(c, k) == IsDict(c) /\ k \in Range(c.ks)
Get(c, k) == c.vs[IndexOf(c.ks, k)]

\* dict.pop(k)
Pop(c, k) ==
    LET i == IndexOf(c.ks, k)
    IN  [c EXCEPT !.ks = RemoveAt(c.ks, i), !.vs = RemoveAt(c.vs, i)]

\* dict[k] = v: an existing key keeps its position, a new key goes last
SetItem(c, k, v) ==
    LET i == IndexOf(c.ks, k)
    IN  IF i = 0
        THEN [c EXCEPT !.ks = Append(c.ks, k), !.vs = Append(c.vs, v)]
        ELSE [c EXCEPT !.vs[i] = v]

\* the values of a JSON text, each named by the path of child positions
\* that leads to it
RECURSIVE Paths(_)
Paths(tree) ==
    {<<>>} \cup UNION {{<<i>> \o p : p \in Paths(tree.vs[i])} : i \in 1..Len(tree.vs)}

RECURSIVE At(_, _)
At(tree, p) == IF p = <<>> THEN tree ELSE At(tree.vs[Head(p)], Tail(p))

\* q is made before p: json.load makes the children, in order, then the value
Before(q, p) ==
    \/ Len(q) > Len(p) /\ SubSeq(q, 1, Len(p)) = p
    \/ \E k \in 1..Len(p) :
          /\ k <= Len(q)
          /\ SubSeq(q, 1, k - 1) = SubSeq(p, 1, k - 1)
          /\ q[k] < p[k]

\* json.load into heap h: one fresh object per value of the text, numbered
\* in the order they are made; <<heap, address of the loaded value>>
json_load(h, tree) ==
    LET ranked(P) == {<<p, Cardinality({q \in P : Before(q, p)}) + 1>> : p \in P}
        rank(R, p) == (CHOOSE r \in R : r[1] = p)[2]
        path(R, a) == (CHOOSE r \in R : r[2] = a)[1]
        object(R, p) ==
            [At(tree, p) EXCEPT
                !.vs = [i \in 1..Len(At(tree, p).vs) |-> Len(h) + rank(R, p \o <<i>>)]]
        made(R) == [a \in 1..Cardinality(R) |-> object(R, path(R, a))]
    IN  Only({<<h \o made(R), Len(h) + Cardinality(R)>> :
                 R \in {Only({ranked(P) : P \in {Paths(tree)}})}})

\* json.dump: the tree below address a, shared cells written out once per use
RECURSIVE json_dump(_, _)
json_dump(h, a) ==
    [h[a] EXCEPT !.vs = [i \in 1..Len(h[a].vs) |-> json_dump(h, h[a].vs[i])]]

(***************************************************************************)
(* The expansion of a conflicting allOf (lines 7-50).                      *)
(***************************************************************************)
\* itertools.product(*ls): every choice of one element per list, the last
\* list varying fastest
RECURSIVE itertools_product(_)
itertools_product(ls) ==
    LET product(first, rest) ==
            Flatten([i \in 1..Len(first) |->
                        [j \in 1..Len(rest) |-> <<first[i]>> \o rest[j]]])
    IN  IF ls = <<>> THEN << <<>> >>
        ELSE Only({product(Head(v), rest) :
                      v \in {ls}, rest \in {itertools_product(Tail(ls))}})

\* the items of schema["allOf"]
all_of(h, a) == h[Get(h[a], "allOf")].vs

\* lines 13-20 without the else branch of lines 16-20: an item that has no
\* oneOf contributes no alternative
one_of_lists_without_else(h, a) ==
    [i \in 1..Len(all_of(h, a)) |->
        IF HasKey(h[all_of(h, a)[i]], "oneOf")
        THEN h[Get(h[all_of(h, a)[i]], "oneOf")].vs
        ELSE <<>>]

\* lines 13-20: the alternatives each allOf item contributes
one_of_lists(h, a) ==
    [i \in 1..Len(all_of(h, a)) |->
        IF HasKey(h[all_of(h, a)[i]], "oneOf")
        THEN h[Get(h[all_of(h, a)[i]], "oneOf")].vs
        ELSE <<all_of(h, a)[i]>>]

\* lines 7-35 with the schema replaced by a new {"oneOf": ...} instead of
\* being updated in place: the other keys of the schema are lost
reconstruct_replacing(h, a) ==
    LET n == Len(h)
        combined(combinations) ==
            Flatten([k \in 1..Len(combinations) |->
                        <<Arr(combinations[k]), Obj(<<"allOf">>, <<n + 2 * k - 1>>)>>])
        new_one_of(combinations) == Arr([k \in 1..Len(combinations) |-> n + 2 * k])
        rebuilt(combinations) ==
            [(h \o combined(combinations)) \o <<new_one_of(combinations)>>
                EXCEPT ![a] = Obj(<<"oneOf">>, <<n + 2 * Len(combinations) + 1>>)]
    IN  Only({rebuilt(c) : c \in {itertools_product(one_of_lists(h, a))}})

\* lines 7-35: the heap after reconstructAllOfOneOf(schema), schema at address a.
\* Combination k gets a fresh list cell and a fresh dict cell {"allOf": list};
\* the members of the list are the existing cells, not copies.
reconstructAllOfOneOf(h, a) ==
    LET n == Len(h)
        combined(combinations) ==
            Flatten([k \in 1..Len(combinations) |->
                        <<Arr(combinations[k]), Obj(<<"allOf">>, <<n + 2 * k - 1>>)>>])
        new_one_of(combinations) == Arr([k \in 1..Len(combinations) |-> n + 2 * k])
        rebuilt(combinations) ==
            [(h \o combined(combinations)) \o <<new_one_of(combinations)>>
                EXCEPT ![a] = SetItem(Pop(h[a], "allOf"), "oneOf",
                                      n + 2 * Len(combinations) + 1)]
    IN  Only({rebuilt(c) : c \in {itertools_product(one_of_lists(h, a))}})

\* lines 40-43: how many items of json_obj[allOf] have a oneOf key
oneOfs(h, a) ==
    Cardinality({i \in 1..Len(all_of(h, a)) : HasKey(h[all_of(h, a)[i]], "oneOf")})

\* lines 38-44: the test that sends a node to reconstructAllOfOneOf
Conflicting(h, a) == HasKey(h[a], "allOf") /\ oneOfs(h, a) >= 2

\* line 9
reconstructing == "reconstructing allOf to oneOf. only for testing with progenitor"

\* lines 38-45: what one call of iterate_nested_json_for_loop does to the heap
\* before it goes into the children
iterate_nested_json_for_loop(h, a) ==
    IF Conflicting(h, a) THEN reconstructAllOfOneOf(h, a) ELSE h

(***************************************************************************)
(* Texts.  A text is a sequence of symbols, each a string: one character   *)
(* or one lexeme the patterns of the script never split (an identifier, an *)
(* attribute, a keyword with its blank).  Blanks, newlines and commas are  *)
(* symbols of their own.  Indices count characters, from 0 as in Python;   *)
(* a slice that cuts a symbol leaves the part of it inside the slice.      *)
(***************************************************************************)
Min(S) == CHOOSE x \in S : \A y \in S : x <= y

\* the number of characters in the symbols lo..hi of s
RECURSIVE CharsIn(_, _, _)
CharsIn(s, lo, hi) ==
    IF lo > hi THEN 0
    ELSE IF lo = hi THEN Len(s[lo])
    ELSE CharsIn(s, lo, (lo + hi) \div 2) + CharsIn(s, (lo + hi) \div 2 + 1, hi)

\* len(s)
CharLen(s) == CharsIn(s, 1, Len(s))

\* a slice index i on a string of length n, as Python clamps it
PyIndex(i, n) ==
    IF i < 0 THEN (IF i + n < 0 THEN 0 ELSE i + n)
    ELSE (IF i > n THEN n ELSE i)

\* the index of the first character of each symbol of s, base that of the
\* first symbol
RECURSIVE Starts(_, _, _, _)
Starts(s, lo, hi, base) ==
    LET mid == (lo + hi) \div 2
    IN  IF lo > hi THEN <<>>
        ELSE IF lo = hi THEN <<base>>
        ELSE Starts(s, lo, mid, base)
                \o Only({Starts(s, mid + 1, hi, b) : b \in {base + CharsIn(s, lo, mid)}})

\* s[lo:hi], s[lo:], s[:hi]
Slice(s, lo, hi) ==
    LET kept(v, start, a, b) ==
            {i \in 1..Len(v) : start[i] < b /\ start[i] + Len(v[i]) > a}
        piece(v, start, a, b, i) ==
            SubSeq(v[i],
                   (IF a > start[i] THEN a - start[i] ELSE 0) + 1,
                   IF b - start[i] < Len(v[i]) THEN b - start[i] ELSE Len(v[i]))
        pieces(v, start, a, b, K) ==
            IF K = {} THEN <<>>
            ELSE <<>> \o [k \in 1..Cardinality(K) |->
                            piece(v, start, a, b, Min(K) + k - 1)]
        slice(v, start, a, b) ==
            Only({pieces(v, start, a, b, K) : K \in {kept(v, start, a, b)}})
        sliced(v, start) ==
            Only({slice(v, start, a, b) : a \in {PyIndex(lo, CharLen(v))},
                                          b \in {PyIndex(hi, CharLen(v))}})
        text(v) == Only({sliced(v, start) : start \in {Starts(v, 1, Len(v), 0)}})
    IN  Only({text(v) : v \in {s}})
SliceFrom(s, lo) == Only({Slice(v, lo, CharLen(v)) : v \in {s}})
SliceTo(s, hi) == Slice(s, 0, hi)

\* the positions (symbols before them) at which sub occurs in s
Occurrences(s, sub) ==
    Only({{i \in 0..(Len(v) - Len(sub)) : SubSeq(v, i + 1, i + Len(sub)) = sub} :
             v \in {s}})

\* a search that answers 0, not -1, when sub does not occur
find_or_zero(s, sub) ==
    Only({IF H = {} THEN 0 ELSE CharsIn(s, 1, Min(H)) : H \in {Occurrences(s, sub)}})

\* str.find: the lowest index where sub occurs, -1 when it does not
find(s, sub) ==
    Only({IF H = {} THEN -1 ELSE CharsIn(s, 1, Min(H)) : H \in {Occurrences(s, sub)}})

\* str.replace: every occurrence of old, left to right, without overlap
RECURSIVE replace(_, _, _)
replace(s, old, new) ==
    LET replaced(v, H) ==
            IF H = {} \/ old = <<>> THEN v
            ELSE SubSeq(v, 1, Min(H)) \o new
                    \o replace(SubSeq(v, Min(H) + Len(old) + 1, Len(v)), old, new)
        text(v) == Only({replaced(v, H) : H \in {Occurrences(v, old)}})
    IN  Only({text(v) : v \in {s}})

\* character classes of the regular expressions, read off the symbols text
Upper == {"A", "B", "C", "D", "E", "F", "G", "H", "I", "J", "K", "L", "M",
          "N", "O", "P", "Q", "R", "S", "T", "U", "V", "W", "X", "Y", "Z"}
Lower == {"a", "b", "c", "d", "e", "f", "g", "h", "i", "j", "k", "l", "m",
          "n", "o", "p", "q", "r", "s", "t", "u", "v", "w", "x", "y", "z"}
Digit == {"0", "1", "2", "3", "4", "5", "6", "7", "8", "9"}
AlNum == Upper \cup Lower \cup Digit
WordChar == AlNum \cup {"_"}

CharAt(x, i) == SubSeq(x, i, i)
Chars(x) == {CharAt(x, i) : i \in 1..Len(x)}
StartsWith(x, prefix) == Len(x) >= Len(prefix) /\ SubSeq(x, 1, Len(prefix)) = prefix
EndsWith(x, suffix) ==
    Len(x) >= Len(suffix) /\ SubSeq(x, Len(x) - Len(suffix) + 1, Len(x)) = suffix
IsSpace(x) == x # "" /\ Chars(x) \subseteq {" ", "\n", "\t"}      \* \s+
IsWord(x) == x # "" /\ Chars(x) \subseteq WordChar               \* \w+

\* the first index from k on whose symbol is not blank (Len(s) + 1 if none)
SkipSpaces(s, k) ==
    Min({i \in k..(Len(s) + 1) : i = Len(s) + 1 \/ ~IsSpace(s[i])})

\* the first index from k on whose symbol satisfies has a character c (0 if none)
FirstWith(s, k, c) ==
    LET hits == {i \in k..Len(s) : c \in Chars(s[i])}
    IN  IF hits = {} THEN 0 ELSE Min(hits)

\* str.rstrip at the grain of symbols: trailing symbols made of chars go
RECURSIVE rstrip(_, _)
rstrip(s, chars) ==
    IF s # <<>> /\ s[Len(s)] # "" /\ Chars(s[Len(s)]) \subseteq chars
    THEN rstrip(SubSeq(s, 1, Len(s) - 1), chars)
    ELSE s

\* "sep".join(lines)
RECURSIVE join(_, _)
join(sep, lines) ==
    IF lines = <<>> THEN <<>>
    ELSE IF Len(lines) = 1 THEN <<lines[1]>>
    ELSE <<lines[1], sep>> \o join(sep, Tail(lines))

(***************************************************************************)
(* The script, top to bottom.                                              *)
(***************************************************************************)
filename == "openapi.json"

\* flag in sys.argv[1:], without the test of len(sys.argv)
FlagAnywhere(flag) == flag \in Range(Tail(argv))

\* len(sys.argv) == 2 and sys.argv[1] == flag
Flag(flag) == Len(argv) = 2 /\ argv[2] = flag

\* d[k1][k2]...: the address, or 0 where Python raises KeyError
RECURSIVE Subscript(_, _, _)
Subscript(h, a, path) ==
    IF path = <<>> THEN a
    ELSE IF HasKey(h[a], Head(path))
         THEN Subscript(h, Get(h[a], Head(path)), Tail(path))
         ELSE 0

GlobalContractIdentifierView(h, root) ==
    Subscript(h, root, <<"components", "schemas", "GlobalContractIdentifierView">>)

\* lines 56-57 with a read of anyOf in place of the pop: the key stays
RenameKeepingAnyOf(h, e) ==
    IF HasKey(h[e], "anyOf")
    THEN [h EXCEPT ![e] = SetItem(h[e], "oneOf", Get(h[e], "anyOf"))]
    ELSE h

\* lines 56-57 on the entry at address e
RenameAnyOf(h, e) ==
    IF HasKey(h[e], "anyOf")
    THEN [h EXCEPT ![e] = SetItem(Pop(h[e], "anyOf"), "oneOf", Get(h[e], "anyOf"))]
    ELSE h

\* lines 54-55: open(filename, ); json.load(f)
Load ==
    /\ pc = "load"
    /\ io' = Append(io, <<"r", filename>>)
    /\ IF openapi_json = None
       THEN /\ pc' = "FileNotFoundError"
            /\ UNCHANGED <<heap, spec>>
       ELSE \E r \in {json_load(<<>>, openapi_json[1])} :
                /\ heap' = r[1]
                /\ spec' = r[2]
                /\ pc' = "rename"
    /\ UNCHANGED <<argv, runs, openapi_json, todo>>
    /\ UNCHANGED libVars

\* lines 56-58: the anyOf rename; a KeyError ends the script
Rename ==
    /\ pc = "rename"
    /\ LET e == GlobalContractIdentifierView(heap, spec)
       IN  IF e = 0
           THEN pc' = "KeyError" /\ heap' = heap
           ELSE pc' = "spec_fix" /\ heap' = RenameAnyOf(heap, e)
    /\ UNCHANGED <<argv, runs, io, openapi_json, spec, todo>>
    /\ UNCHANGED libVars

\* lines 61-62: the call iterate_nested_json_for_loop(spec)
SpecFix ==
    /\ pc = "spec_fix"
    /\ Flag("--spec-fix")
    /\ todo' = <<spec>>
    /\ pc' = "walk"
    /\ UNCHANGED <<argv, runs, io, openapi_json, heap, spec>>
    /\ UNCHANGED libVars

\* line 61, the test failing
NoSpecFix ==
    /\ pc = "spec_fix"
    /\ ~Flag("--spec-fix")
    /\ pc' = "write"
    /\ UNCHANGED <<argv, runs, io, jsonVars>>
    /\ UNCHANGED libVars

\* lines 37-50 with the loop of lines 46-47 running over the values the node
\* had before line 45: the list the rewrite has built is not visited
WalkOldValues ==
    /\ pc = "walk"
    /\ todo # <<>>
    /\ \E h1 \in {iterate_nested_json_for_loop(heap, Head(todo))} :
          /\ heap' = h1
          /\ todo' = heap[Head(todo)].vs \o Tail(todo)
    /\ io' = IF Conflicting(heap, Head(todo))
             THEN Append(io, <<"print", reconstructing>>)
             ELSE io
    /\ UNCHANGED <<pc, argv, runs, openapi_json, spec>>
    /\ UNCHANGED libVars

\* lines 37-50, one call: the node is tested and possibly rewritten, then its
\* values (a dict) or items (a list) are visited in order before anything else
\* that is pending.  The node is not rewritten again while its own loop runs
\* (the heap has no cycle), so its children are those it has right after line 45.
Walk ==
    /\ pc = "walk"
    /\ todo # <<>>
    /\ \E h1 \in {iterate_nested_json_for_loop(heap, Head(todo))} :
          /\ heap' = h1
          /\ todo' = h1[Head(todo)].vs \o Tail(todo)
    /\ io' = IF Conflicting(heap, Head(todo))
             THEN Append(io, <<"print", reconstructing>>)
             ELSE io
    /\ UNCHANGED <<pc, argv, runs, openapi_json, spec>>
    /\ UNCHANGED libVars

\* line 63: the outermost call has returned
WalkDone ==
    /\ pc = "walk"
    /\ todo = <<>>
    /\ io' = Append(io, <<"print", "spec fixed">>)
    /\ pc' = "write"
    /\ UNCHANGED <<argv, runs, jsonVars>>
    /\ UNCHANGED libVars

\* lines 65-67: open(filename, w); json.dump(spec, f, indent=4)
WriteSpec ==
    /\ pc = "write"
    /\ openapi_json' = Some(json_dump(heap, spec))
    /\ io' = Append(io, <<"w", filename>>)
    /\ pc' = "lib_fix"
    /\ UNCHANGED <<argv, runs, heap, spec, todo>>
    /\ UNCHANGED libVars

\* line 69, the test failing: the script ends
NoLibFix ==
    /\ pc = "lib_fix"
    /\ ~Flag("--lib-fix")
    /\ pc' = "done"
    /\ UNCHANGED <<argv, runs, io, jsonVars>>
    /\ UNCHANGED libVars

(***************************************************************************)
(* --lib-fix: the literals of lines 74-104, as symbols.                    *)
(***************************************************************************)
types_start ==
    << "#[doc = r\" Types used as operation parameters and responses.\"]", "\n",
       "#[allow(clippy::all)]", "\n",
       "pub mod types {" >>
client_start ==
    << "#[derive(", "Clone", ",", " ", "Debug", ")]", "\n",
       "#[doc = \"Client for NEAR Protocol JSON RPC API" >>
reexports ==
    << "pub use near_account_id::AccountId;", "\n",
       "pub use near_gas::NearGas;", "\n",
       "pub use near_token::NearToken;", "\n" >>
\* (the back quote around the type name in four of the markers is written ~:
\* a string of this language cannot hold a back quote)
account_id_doc == << "#[doc = \"NEAR Account Identifier" >>
account_id_validity_doc == << "#[doc = \"~AccountIdValidityRulesVersion~\"]" >>
near_gas_doc == << "#[doc = \"~NearGas~\"]" >>
network_info_view_doc == << "#[doc = \"~NetworkInfoView~\"]" >>
error_doc == << "#[doc = r\" Error types.\"]" >>
access_key_doc == << "#[doc = \"Access key provides limited access" >>
crypto_hash_doc == << "#[doc = \"~CryptoHash~\"]" >>
current_epoch_doc ==
    << "#[doc = \"Describes information about the current epoch validator\"]" >>

\* lines 89-91 and their three repetitions: types[:start] + types[end:]
Cut(t, start_doc, end_doc) ==
    SliceTo(t, find(t, start_doc)) \o SliceFrom(t, find(t, end_doc))

(***************************************************************************)
(* The derive augmentation (lines 106-128).                                *)
(***************************************************************************)
\* the longest prefix of x made of word characters
WordPrefix(x) ==
    LET n == Min({i \in 0..Len(x) : i = Len(x) \/ CharAt(x, i + 1) \notin WordChar})
    IN  SubSeq(x, 1, n)

\* line 110: re.findall(impl ::std::fmt::Display for (\w+), types)
types_with_display(t) ==
    {WordPrefix(t[i + 1]) :
        i \in {j \in 1..(Len(t) - 1) :
                 t[j] = "impl ::std::fmt::Display for " /\ WordPrefix(t[j + 1]) # ""}}

\* (RpcRequestValidationErrorKind|[A-Z][a-zA-Z0-9]*Error) on a whole identifier
NameRule(n) ==
    \/ n = "RpcRequestValidationErrorKind"
    \/ /\ Len(n) >= 6
       /\ CharAt(n, 1) \in Upper
       /\ Chars(n) \subseteq AlNum
       /\ EndsWith(n, "Error")

\* \b after the symbol at q
WordBoundaryAfter(s, q) == q = Len(s) \/ CharAt(s[q + 1], 1) \notin WordChar

\* (?:\s*#\[[^\n]+\n)* from index k: the index after the attribute lines
RECURSIVE SkipAttrs(_, _)
SkipAttrs(s, k) ==
    LET k1 == SkipSpaces(s, k)
        e == IF k1 <= Len(s) THEN FirstWith(s, k1, "\n") ELSE 0
    IN  IF /\ k1 <= Len(s)
           /\ StartsWith(s[k1], "#[")
           /\ e > k1
           /\ (Len(s[k1]) > 2 \/ e > k1 + 1)
           /\ s[e] = "\n"
        THEN SkipAttrs(s, e + 1)
        ELSE k

NoMatch == [ok |-> FALSE, g1 |-> <<>>, g2 |-> <<>>, g3 |-> <<>>, g4 |-> "", last |-> 0]

\* the pattern of line 125 tried at index i: the groups and the last index matched
derive_match(s, i) ==
    IF s[i] # "#[derive(" THEN NoMatch
    ELSE LET j == FirstWith(s, i + 1, ")")
         IN  IF j = 0 \/ j = i + 1 \/ j + 1 > Len(s) THEN NoMatch
             ELSE IF s[j] # ")]" \/ s[j + 1] # "\n" THEN NoMatch
             ELSE LET k == SkipAttrs(s, j + 2)
                      q == SkipSpaces(s, k)
                  IN  IF q + 1 > Len(s) THEN NoMatch
                      ELSE IF \/ s[q] # "pub enum "
                              \/ ~NameRule(s[q + 1])
                              \/ ~WordBoundaryAfter(s, q + 1)
                           THEN NoMatch
                           ELSE [ok |-> TRUE,
                                 g1 |-> SubSeq(s, i + 1, j - 1),
                                 g2 |-> SubSeq(s, j + 1, k - 1),
                                 g3 |-> SubSeq(s, k, q - 1),
                                 g4 |-> s[q + 1],
                                 last |-> q + 1]

\* lines 112-122 without the test of line 119: Display is always added
add_error_derives_and_display(m, with_display) ==
    IF StartsWith(m.g4, "JsonRpcResponseFor")
    THEN <<"#[derive(">> \o m.g1 \o <<")]">> \o m.g2 \o m.g3 \o <<"pub enum ", m.g4>>
    ELSE LET derives == rstrip(rstrip(m.g1, {" ", "\n", "\t"}), {","})
             new_derives == derives \o <<",", " ", "thiserror::Error",
                                         ",", " ", "strum_macros::Display">>
         IN  <<"#[derive(">> \o new_derives \o <<")]">> \o m.g2 \o m.g3
                 \o <<"pub enum ", m.g4>>

\* lines 112-122: the replacement for match m
add_error_derives(m, with_display) ==
    IF StartsWith(m.g4, "JsonRpcResponseFor")
    THEN <<"#[derive(">> \o m.g1 \o <<")]">> \o m.g2 \o m.g3 \o <<"pub enum ", m.g4>>
    ELSE LET derives == rstrip(rstrip(m.g1, {" ", "\n", "\t"}), {","})
             new_derives ==
                 IF m.g4 \in with_display
                 THEN derives \o <<",", " ", "thiserror::Error">>
                 ELSE derives \o <<",", " ", "thiserror::Error",
                                   ",", " ", "strum_macros::Display">>
         IN  <<"#[derive(">> \o new_derives \o <<")]">> \o m.g2 \o m.g3
                 \o <<"pub enum ", m.g4>>

\* lines 124-128: re.sub over s from index i, matches taken left to right
RECURSIVE sub_error_derives(_, _, _)
sub_error_derives(s, i, with_display) ==
    LET hits == {k \in i..Len(s) : derive_match(s, k).ok}
    IN  IF hits = {} THEN SubSeq(s, i, Len(s))
        ELSE LET m == derive_match(s, Min(hits))
             IN  SubSeq(s, i, Min(hits) - 1)
                    \o add_error_derives(m, with_display)
                    \o sub_error_derives(s, m.last + 1, with_display)

\* line 131: re.sub(\n(\s*)pub enum , \n\1#[non_exhaustive]\n\1pub enum , s)
RECURSIVE sub_non_exhaustive(_, _)
sub_non_exhaustive(s, i) ==
    LET hits == {k \in i..Len(s) :
                    /\ s[k] = "\n"
                    /\ SkipSpaces(s, k + 1) <= Len(s)
                    /\ s[SkipSpaces(s, k + 1)] = "pub enum "}
    IN  IF hits = {} THEN SubSeq(s, i, Len(s))
        ELSE LET k == Min(hits)
                 q == SkipSpaces(s, k + 1)
             IN  SubSeq(s, i, k - 1)
                    \o <<"\n">> \o SubSeq(s, k + 1, q - 1) \o <<"#[non_exhaustive]", "\n">>
                    \o SubSeq(s, k + 1, q - 1) \o <<"pub enum ">>
                    \o sub_non_exhaustive(s, q + 1)

\* line 143: re.sub("{}/\w*, "{}/, s)
RECURSIVE sub_url_path(_, _)
sub_url_path(s, i) ==
    LET hits == {k \in i..(Len(s) - 1) : s[k] = "\"{}/" /\ IsWord(s[k + 1])}
    IN  IF hits = {} THEN SubSeq(s, i, Len(s))
        ELSE SubSeq(s, i, Min(hits)) \o sub_url_path(s, Min(hits) + 2)

\* lines 133-139
types_header ==
    << "//! This crate provides types for the Near OpenAPI specification.", "\n",
       "//!", "\n",
       "//! Used in [near-openapi-client](https://docs.rs/near-openapi-client/latest/near_openapi_client/)", "\n",
       "pub mod error;", "\n",
       "mod util;", "\n",
       "pub use util::CryptoHash;", "\n" >>

(***************************************************************************)
(* The manifests (lines 167-190).  A manifest is a text whose symbols are  *)
(* its lines and the names inside them.                                    *)
(***************************************************************************)
\* re.sub of a pattern that is one symbol: each occurrence becomes new
RECURSIVE sub_symbol(_, _, _)
sub_symbol(s, old, new) ==
    LET hits == {k \in 1..Len(s) : s[k] = old}
    IN  IF hits = {} THEN s
        ELSE SubSeq(s, 1, Min(hits) - 1) \o new
                \o sub_symbol(SubSeq(s, Min(hits) + 1, Len(s)), old, new)

\* re.sub(prefix [^"]+ suffix, "", s): the dependency lines of that shape go
RECURSIVE sub_line(_, _, _)
sub_line(s, prefix, suffix) ==
    LET hits == {k \in 1..Len(s) : /\ StartsWith(s[k], prefix)
                                   /\ EndsWith(s[k], suffix)
                                   /\ Len(s[k]) > Len(prefix) + Len(suffix)}
    IN  IF hits = {} THEN s
        ELSE SubSeq(s, 1, Min(hits) - 1)
                \o sub_line(SubSeq(s, Min(hits) + 1, Len(s)), prefix, suffix)

boilerplate ==
    "version = \"0.0.0\"\nedition = \"2021\"\nlicense = \"SPECIFY A LICENSE BEFORE PUBLISHING\""
workspace_fields ==
    "version.workspace = true\nedition.workspace = true\nlicense.workspace = true\nrepository.workspace = true\n"
client_description == "description = \"Progenitor-generated client of NEAR JSON RPC API\"\n"
types_description ==
    "description = \"Types for progenitor-generated client of NEAR JSON RPC API\"\n"
types_dependencies ==
    << "near-account-id = { version = \"2.0\", features = [\"serde\"] }\n",
       "near-gas = { version = \"0.3.2\", features = [\"serde\"] }\n",
       "near-token = { version = \"0.3.1\", features = [\"serde\"] }\n",
       "thiserror = \"2.0.17\"\n",
       "strum_macros = \"0.27.2\"\n",
       "bs58 = \"0.5.1\"\n" >>

\* line 167
strip_workspace(c) == sub_symbol(c, "[workspace]", <<>>)

\* lines 169-176
make_client_cargo_toml(c) ==
    Append(sub_symbol(sub_symbol(c, "near-openapi", <<"near-openapi-client">>),
                      boilerplate, <<workspace_fields \o client_description>>),
           "near-openapi-types.workspace = true\n")

\* lines 177-190
make_types_cargo_toml(c) ==
    LET renamed == sub_symbol(sub_symbol(c, "near-openapi", <<"near-openapi-types">>),
                              boilerplate, <<workspace_fields \o types_description>>)
        no_bytes == sub_line(renamed, "bytes = \"", "\"\n")
        no_futures == sub_line(no_bytes, "futures-core = \"", "\"\n")
        no_progenitor == sub_line(no_futures, "progenitor-client = \"", "\"\n")
        no_reqwest == sub_line(no_progenitor, "reqwest = {", "}\n")
        no_urlencoded == sub_line(no_reqwest, "serde_urlencoded = \"", "\"\n")
    IN  no_urlencoded \o types_dependencies

(***************************************************************************)
(* --lib-fix, step by step (lines 69-198).                                 *)
(***************************************************************************)
near_openapi_lib_rs == "./near-openapi/src/lib.rs"
readme_path == "./README.md"
near_openapi_cargo_toml == "./near-openapi/Cargo.toml"
client_lib_rs_path == "./near-openapi-client/src/lib.rs"
types_lib_rs_path == "./near-openapi-types/src/lib.rs"
client_cargo_toml_path == "./near-openapi-client/Cargo.toml"
types_cargo_toml_path == "./near-openapi-types/Cargo.toml"
readme_marker == "### Generate libraries and test:\n"

\* os.makedirs(d): the directory and its parent
makedirs(ds, parent, d) == ds \cup {parent, d}

\* lines 69-72: the test succeeding, then the read of the generated source
ReadLib ==
    /\ pc = "lib_fix"
    /\ Flag("--lib-fix")
    /\ io' = Append(io, <<"r", near_openapi_lib_rs>>)
    /\ IF all_lib_rs_file = None
       THEN pc' = "FileNotFoundError" /\ lib_rs' = lib_rs
       ELSE pc' = "split" /\ lib_rs' = all_lib_rs_file[1]
    /\ UNCHANGED <<argv, runs, types_index, client_index, dependencies, types,
                   client, cuts, types_lib_rs, client_lib_rs, cargo_toml,
                   client_cargo_toml, types_cargo_toml, jsonVars, inFiles,
                   outFiles>>

\* lines 74-85 with the client slice starting after the client marker
SplitAfterMarker ==
    /\ pc = "split"
    /\ types_index' = find(lib_rs, types_start)
    /\ client_index' = find(lib_rs, client_start)
    /\ dependencies' = SliceTo(lib_rs, types_index')
    /\ types' = Slice(lib_rs, types_index', client_index')
    /\ client' = SliceFrom(lib_rs, client_index' + CharLen(client_start))
    /\ io' = Append(io, <<"print", ToString(types_index') \o " " \o ToString(client_index')>>)
    /\ pc' = "strip"
    /\ UNCHANGED <<argv, runs, lib_rs, cuts, types_lib_rs, client_lib_rs,
                   cargo_toml, client_cargo_toml, types_cargo_toml, jsonVars,
                   inFiles, outFiles>>

\* lines 74-85: the two searches and the three slices
Split ==
    /\ pc = "split"
    /\ types_index' = find(lib_rs, types_start)
    /\ client_index' = find(lib_rs, client_start)
    /\ dependencies' = SliceTo(lib_rs, types_index')
    /\ types' = Slice(lib_rs, types_index', client_index')
    /\ client' = SliceFrom(lib_rs, client_index')
    /\ io' = Append(io, <<"print", ToString(types_index') \o " " \o ToString(client_index')>>)
    /\ pc' = "strip"
    /\ UNCHANGED <<argv, runs, lib_rs, cuts, types_lib_rs, client_lib_rs,
                   cargo_toml, client_cargo_toml, types_cargo_toml, jsonVars,
                   inFiles, outFiles>>

\* lines 87-88: the wrapper goes, the re-exports come, NearToken("0") is fixed
Strip ==
    /\ pc = "strip"
    /\ types' = replace(reexports \o Slice(types, CharLen(types_start), -2),
                        <<"super::NearToken(\"0\".to_string())">>,
                        <<"super::NearToken::from_yoctonear(0)">>)
    /\ pc' = "remove_account_id"
    /\ UNCHANGED <<argv, runs, io, lib_rs, types_index, client_index, dependencies,
                   client, cuts, types_lib_rs, client_lib_rs, cargo_toml,
                   client_cargo_toml, types_cargo_toml, jsonVars, inFiles,
                   outFiles>>

\* lines 89-91: the AccountId definition is cut out
RemoveAccountId ==
    /\ pc = "remove_account_id"
    /\ cuts' = Append(cuts, <<find(types, account_id_doc), find(types, account_id_validity_doc)>>)
    /\ types' = Cut(types, account_id_doc, account_id_validity_doc)
    /\ pc' = "remove_near_gas"
    /\ UNCHANGED <<argv, runs, io, lib_rs, types_index, client_index, dependencies,
                   client, types_lib_rs, client_lib_rs, cargo_toml,
                   client_cargo_toml, types_cargo_toml, jsonVars, inFiles,
                   outFiles>>

\* lines 92-94: NearGas and NearToken are cut out
RemoveNearGas ==
    /\ pc = "remove_near_gas"
    /\ cuts' = Append(cuts, <<find(types, near_gas_doc), find(types, network_info_view_doc)>>)
    /\ types' = Cut(types, near_gas_doc, network_info_view_doc)
    /\ pc' = "remove_error"
    /\ UNCHANGED <<argv, runs, io, lib_rs, types_index, client_index, dependencies,
                   client, types_lib_rs, client_lib_rs, cargo_toml,
                   client_cargo_toml, types_cargo_toml, jsonVars, inFiles,
                   outFiles>>

\* lines 97-99: the inline error module is cut out
RemoveError ==
    /\ pc = "remove_error"
    /\ cuts' = Append(cuts, <<find(types, error_doc), find(types, access_key_doc)>>)
    /\ types' = Cut(types, error_doc, access_key_doc)
    /\ pc' = "remove_crypto_hash"
    /\ UNCHANGED <<argv, runs, io, lib_rs, types_index, client_index, dependencies,
                   client, types_lib_rs, client_lib_rs, cargo_toml,
                   client_cargo_toml, types_cargo_toml, jsonVars, inFiles,
                   outFiles>>

\* lines 102-104: the CryptoHash definition is cut out
RemoveCryptoHash ==
    /\ pc = "remove_crypto_hash"
    /\ cuts' = Append(cuts, <<find(types, crypto_hash_doc), find(types, current_epoch_doc)>>)
    /\ types' = Cut(types, crypto_hash_doc, current_epoch_doc)
    /\ pc' = "derives"
    /\ UNCHANGED <<argv, runs, io, lib_rs, types_index, client_index, dependencies,
                   client, types_lib_rs, client_lib_rs, cargo_toml,
                   client_cargo_toml, types_cargo_toml, jsonVars, inFiles,
                   outFiles>>

\* lines 110-128: the derives of the error enums
Derives ==
    /\ pc = "derives"
    /\ types' = sub_error_derives(types, 1, types_with_display(types))
    /\ pc' = "non_exhaustive"
    /\ UNCHANGED <<argv, runs, io, lib_rs, types_index, client_index, dependencies,
                   client, cuts, types_lib_rs, client_lib_rs, cargo_toml,
                   client_cargo_toml, types_cargo_toml, jsonVars, inFiles,
                   outFiles>>

\* line 131
NonExhaustive ==
    /\ pc = "non_exhaustive"
    /\ types' = sub_non_exhaustive(types, 1)
    /\ pc' = "assemble"
    /\ UNCHANGED <<argv, runs, io, lib_rs, types_index, client_index, dependencies,
                   client, cuts, types_lib_rs, client_lib_rs, cargo_toml,
                   client_cargo_toml, types_cargo_toml, jsonVars, inFiles,
                   outFiles>>

\* lines 133-143: the two crate sources, before the readme is added
Assemble ==
    /\ pc = "assemble"
    /\ types_lib_rs' = types_header \o types
    /\ client_lib_rs' =
          sub_url_path(<<"pub use near_openapi_types as types;", "\n">>
                          \o dependencies \o client, 1)
    /\ pc' = "read_readme"
    /\ UNCHANGED <<argv, runs, io, lib_rs, types_index, client_index, dependencies,
                   types, client, cuts, cargo_toml, client_cargo_toml,
                   types_cargo_toml, jsonVars, inFiles, outFiles>>

\* lines 145-149: the readme up to the marker line becomes the crate documentation;
\* list.index raises ValueError when no line equals the marker
ReadReadme ==
    /\ pc = "read_readme"
    /\ io' = Append(io, <<"r", readme_path>>)
    /\ IF readme_md = None
       THEN pc' = "FileNotFoundError" /\ client_lib_rs' = client_lib_rs
       ELSE LET client_docs == readme_md[1]
                index_of_finish == IndexOf(client_docs, readme_marker) - 1
            IN  IF index_of_finish < 0
                THEN pc' = "ValueError" /\ client_lib_rs' = client_lib_rs
                ELSE /\ pc' = "write_client_lib"
                     /\ client_lib_rs' =
                           join("\n", [i \in 1..index_of_finish |->
                                          "//!" \o client_docs[i]])
                              \o client_lib_rs
    /\ UNCHANGED <<argv, runs, lib_rs, types_index, client_index, dependencies,
                   types, client, cuts, types_lib_rs, cargo_toml,
                   client_cargo_toml, types_cargo_toml, jsonVars, inFiles,
                   outFiles>>

\* lines 151-155
WriteClientLib ==
    /\ pc = "write_client_lib"
    /\ dirs' = makedirs(dirs, "./near-openapi-client", "./near-openapi-client/src")
    /\ io' = Append(io, <<"w", client_lib_rs_path>>)
    /\ client_lib_rs_file' = Some(client_lib_rs)
    /\ pc' = "write_types_lib"
    /\ UNCHANGED <<argv, runs, types_lib_rs_file, client_cargo_toml_file,
                   types_cargo_toml_file, lib_rs, types_index, client_index,
                   dependencies, types, client, cuts, types_lib_rs, client_lib_rs,
                   cargo_toml, client_cargo_toml, types_cargo_toml, jsonVars,
                   inFiles>>

\* lines 157-161
WriteTypesLib ==
    /\ pc = "write_types_lib"
    /\ dirs' = makedirs(dirs, "./near-openapi-types", "./near-openapi-types/src")
    /\ io' = Append(io, <<"w", types_lib_rs_path>>)
    /\ types_lib_rs_file' = Some(types_lib_rs)
    /\ pc' = "read_cargo"
    /\ UNCHANGED <<argv, runs, client_lib_rs_file, client_cargo_toml_file,
                   types_cargo_toml_file, lib_rs, types_index, client_index,
                   dependencies, types, client, cuts, types_lib_rs, client_lib_rs,
                   cargo_toml, client_cargo_toml, types_cargo_toml, jsonVars,
                   inFiles>>

\* lines 163-165 with a cleanup: when the manifest cannot be read the two
\* sources written before are removed
ReadCargoOrUndo ==
    /\ pc = "read_cargo"
    /\ io' = Append(io, <<"r", near_openapi_cargo_toml>>)
    /\ IF all_cargo_toml_file = None
       THEN /\ pc' = "FileNotFoundError" /\ cargo_toml' = cargo_toml
            /\ client_lib_rs_file' = None /\ types_lib_rs_file' = None
       ELSE /\ pc' = "manifests" /\ cargo_toml' = all_cargo_toml_file[1]
            /\ UNCHANGED <<client_lib_rs_file, types_lib_rs_file>>
    /\ UNCHANGED <<argv, runs, lib_rs, types_index, client_index, dependencies,
                   types, client, cuts, types_lib_rs, client_lib_rs,
                   client_cargo_toml, types_cargo_toml, jsonVars, inFiles,
                   dirs, client_cargo_toml_file, types_cargo_toml_file>>

\* lines 163-165
ReadCargo ==
    /\ pc = "read_cargo"
    /\ io' = Append(io, <<"r", near_openapi_cargo_toml>>)
    /\ IF all_cargo_toml_file = None
       THEN pc' = "FileNotFoundError" /\ cargo_toml' = cargo_toml
       ELSE pc' = "manifests" /\ cargo_toml' = all_cargo_toml_file[1]
    /\ UNCHANGED <<argv, runs, lib_rs, types_index, client_index, dependencies,
                   types, client, cuts, types_lib_rs, client_lib_rs,
                   client_cargo_toml, types_cargo_toml, jsonVars, inFiles,
                   outFiles>>

\* lines 167-190
Manifests ==
    /\ pc = "manifests"
    /\ cargo_toml' = strip_workspace(cargo_toml)
    /\ client_cargo_toml' = make_client_cargo_toml(cargo_toml')
    /\ types_cargo_toml' = make_types_cargo_toml(cargo_toml')
    /\ pc' = "write_client_cargo"
    /\ UNCHANGED <<argv, runs, io, lib_rs, types_index, client_index, dependencies,
                   types, client, cuts, types_lib_rs, client_lib_rs, jsonVars,
                   inFiles, outFiles>>

\* lines 192-194
WriteClientCargo ==
    /\ pc = "write_client_cargo"
    /\ io' = Append(io, <<"w", client_cargo_toml_path>>)
    /\ client_cargo_toml_file' = Some(client_cargo_toml)
    /\ pc' = "write_types_cargo"
    /\ UNCHANGED <<argv, runs, dirs, client_lib_rs_file, types_lib_rs_file,
                   types_cargo_toml_file, lib_rs, types_index, client_index,
                   dependencies, types, client, cuts, types_lib_rs, client_lib_rs,
                   cargo_toml, client_cargo_toml, types_cargo_toml, jsonVars,
                   inFiles>>

\* lines 196-200
WriteTypesCargo ==
    /\ pc = "write_types_cargo"
    /\ io' = io \o << <<"w", types_cargo_toml_path>>, <<"print", "lib fixed">> >>
    /\ types_cargo_toml_file' = Some(types_cargo_toml)
    /\ pc' = "done"
    /\ UNCHANGED <<argv, runs, dirs, client_lib_rs_file, types_lib_rs_file,
                   client_cargo_toml_file, lib_rs, types_index, client_index,
                   dependencies, types, client, cuts, types_lib_rs, client_lib_rs,
                   cargo_toml, client_cargo_toml, types_cargo_toml, jsonVars,
                   inFiles>>

\* the same command line is run once more, on the files the last run left
Invoke ==
    /\ pc = "done"
    /\ runs < MaxRuns
    /\ runs' = runs + 1
    /\ pc' = "load"
    /\ io' = <<>>
    /\ heap' = <<>> /\ spec' = 0 /\ todo' = <<>>
    /\ lib_rs' = <<>> /\ types_index' = 0 /\ client_index' = 0
    /\ dependencies' = <<>> /\ types' = <<>> /\ client' = <<>> /\ cuts' = <<>>
    /\ types_lib_rs' = <<>> /\ client_lib_rs' = <<>>
    /\ cargo_toml' = <<>> /\ client_cargo_toml' = <<>> /\ types_cargo_toml' = <<>>
    /\ UNCHANGED <<argv, openapi_json, inFiles, outFiles>>

(***************************************************************************)
(* Inputs: the command line and the files the script finds.                *)
(***************************************************************************)
Type(x) == Obj(<<"type">>, <<Str(x)>>)
AllOf(items) == Obj(<<"allOf">>, <<Arr(items)>>)
OneOf(items) == Obj(<<"oneOf">>, <<Arr(items)>>)

\* the schemas with exactly n schema objects, built from allOf, oneOf and a leaf
RECURSIVE SchemasOfSize(_), ListsOfSize(_)
SchemasOfSize(n) ==
    IF n = 0 THEN {}
    ELSE (IF n = 1 THEN {Type("A")} ELSE {})
         \cup {AllOf(f) : f \in ListsOfSize(n - 1)}
         \cup {OneOf(f) : f \in ListsOfSize(n - 1)}
ListsOfSize(m) ==
    IF m = 0 THEN {<<>>}
    ELSE UNION {{<<x>> \o f : x \in SchemasOfSize(k), f \in ListsOfSize(m - k)} : k \in 1..m}

Schemas == UNION {SchemasOfSize(n) : n \in 1..MaxNodes}

\* the example of the specification, section 8
ExampleSchema ==
    AllOf(<< OneOf(<<Type("A")>>), OneOf(<<Type("B"), Type("C")>>) >>)

\* a conflicting node with further keys, a oneOf of its own, an item without
\* oneOf and an item that has a key beside its oneOf
FramedSchema ==
    Obj(<<"title", "oneOf", "allOf", "nullable">>,
        << Str("Framed"),
           Arr(<<Type("Old")>>),
           Arr(<< Obj(<<"description", "oneOf">>,
                      <<Str("dropped"), Arr(<<Type("A"), Type("B")>>)>>),
                  Type("C"),
                  OneOf(<<Type("D"), Type("E")>>) >>),
           Str("true") >>)

\* alternatives that are oneOf themselves: the combination is conflicting again
NestedSchema ==
    AllOf(<< OneOf(<<OneOf(<<Type("A")>>)>>), OneOf(<<OneOf(<<Type("B")>>)>>) >>)

\* an alternative X shared by two combinations; X has one oneOf item and one
\* conflicting allOf item
SharedSchema ==
    AllOf(<< OneOf(<< AllOf(<< OneOf(<<Type("A")>>),
                               AllOf(<< OneOf(<<Type("B")>>),
                                        OneOf(<<Type("C")>>) >>) >>) >>),
             OneOf(<<Type("P"), Type("Q")>>) >>)

\* an item that becomes oneOf only after its parent has been tested
LateSchema ==
    AllOf(<< OneOf(<<Type("A")>>),
             AllOf(<< OneOf(<<Type("B")>>), OneOf(<<Type("C")>>) >>) >>)

ExampleSchemas == {ExampleSchema, FramedSchema, NestedSchema, SharedSchema, LateSchema}

\* a document with the given named schemas under components.schemas
Document(names, schemas) ==
    Obj(<<"components">>, <<Obj(<<"schemas">>, <<Obj(names, schemas)>>)>>)

AnyOfView ==
    Obj(<<"description", "anyOf", "title">>,
        <<Str("view"), Arr(<<Type("A"), Type("B")>>), Str("GlobalContractIdentifierView")>>)
BothView ==
    Obj(<<"oneOf", "anyOf">>, <<Arr(<<Type("Old")>>), Arr(<<Type("A"), Type("B")>>)>>)
PlainView == Type("object")

SmallDocuments ==
    { Document(<<"GlobalContractIdentifierView", "RpcError">>, <<AnyOfView, ExampleSchema>>),
      Document(<<"RpcError", "GlobalContractIdentifierView">>, <<LateSchema, BothView>>),
      Document(<<"GlobalContractIdentifierView">>, <<PlainView>>),
      Document(<<"RpcError">>, <<ExampleSchema>>) }

Argvs ==
    { <<"progenitor_fixes.py">>,
      <<"progenitor_fixes.py", "--spec-fix">>,
      <<"progenitor_fixes.py", "--lib-fix">>,
      <<"progenitor_fixes.py", "--spec-fix", "--lib-fix">> }

\* a generated source with every marker, in the order the generator emits them
GoodLib ==
    << "use progenitor_client::encode_path;", "\n" >>
    \o types_start
    \o << "\n" >>
    \o error_doc \o << "\n", "pub mod error {", "}", "\n" >>
    \o access_key_doc \o << ".\"]", "\n", "pub struct ", "AccessKey", " ", "{",
                            "super::NearToken(\"0\".to_string())", "}", "\n" >>
    \o account_id_doc \o << ".\"]", "\n", "pub struct ", "AccountId", ";", "\n" >>
    \o account_id_validity_doc
    \o << "\n", "pub struct ", "AccountIdValidityRulesVersion", ";", "\n" >>
    \o crypto_hash_doc \o << "\n", "pub struct ", "CryptoHash", ";", "\n" >>
    \o current_epoch_doc
    \o << "\n", "pub struct ", "CurrentEpochValidatorInfo", ";", "\n" >>
    \o near_gas_doc \o << "\n", "pub struct ", "NearGas", ";", "\n" >>
    \o network_info_view_doc \o << "\n", "pub struct ", "NetworkInfoView", ";", "\n" >>
    \o << "#[derive(", "Clone", ",", " ", "Debug", ")]", "\n",
          "pub enum ", "RpcError", " ", "{", "}", "\n",
          "}", "\n" >>
    \o client_start
    \o << "\"]", "\n", "pub struct ", "Client", ";", "\n",
          "format!(", "\"{}/", "block", "\"", ")", "\n" >>

\* a source in which no marker occurs
BadLib == << "fn ", "main", "(", ")", " ", "{", "}", "\n" >>

GoodReadme ==
    << "# near-openapi-client\n", "\n", "### Generate libraries and test:\n",
       "cargo test\n" >>
Readmes ==
    { GoodReadme,
      << "# near-openapi-client\n", "cargo test\n" >>,
      << "# near-openapi-client\n", "### Generate libraries and test:" >> }

GoodCargo ==
    << "[package]\n", "name = \"", "near-openapi", "\"\n", boilerplate, "\n",
       "[dependencies]\n", "bytes = \"1.9\"\n", "futures-core = \"0.3\"\n",
       "progenitor-client = \"0.9\"\n",
       "reqwest = { version = \"0.12\", features = [\"json\", \"stream\"] }\n",
       "serde = { version = \"1.0\", features = [\"derive\"] }\n",
       "serde_urlencoded = \"0.7\"\n", "[workspace]", "\n" >>

\* what a run of the script starts from, the files apart
Fresh ==
    /\ pc = "load"
    /\ runs = 1
    /\ io = <<>>
    /\ heap = <<>> /\ spec = 0 /\ todo = <<>>
    /\ lib_rs = <<>> /\ types_index = 0 /\ client_index = 0
    /\ dependencies = <<>> /\ types = <<>> /\ client = <<>> /\ cuts = <<>>
    /\ types_lib_rs = <<>> /\ client_lib_rs = <<>>
    /\ cargo_toml = <<>> /\ client_cargo_toml = <<>> /\ types_cargo_toml = <<>>

\* the two crates do not exist yet
NoOutputs ==
    /\ dirs = {}
    /\ client_lib_rs_file = None /\ types_lib_rs_file = None
    /\ client_cargo_toml_file = None /\ types_cargo_toml_file = None

\* the two crates exist, left by an earlier generation
OldOutputs ==
    /\ dirs = {"./near-openapi-client", "./near-openapi-client/src",
               "./near-openapi-types", "./near-openapi-types/src"}
    /\ client_lib_rs_file = Some(<<"old">>) /\ types_lib_rs_file = Some(<<"old">>)
    /\ client_cargo_toml_file = Some(<<"old">>)
    /\ types_cargo_toml_file = Some(<<"old">>)

\* every command line on a few documents, with each input file present or not
Init ==
    /\ Fresh
    /\ argv \in Argvs
    /\ openapi_json \in {None} \cup {Some(d) : d \in SmallDocuments}
    /\ all_lib_rs_file \in {None, Some(GoodLib), Some(BadLib)}
    /\ readme_md \in {None} \cup {Some(r) : r \in Readmes}
    /\ all_cargo_toml_file \in {None, Some(GoodCargo)}
    /\ NoOutputs \/ OldOutputs

GoodInputs ==
    /\ all_lib_rs_file = Some(GoodLib)
    /\ readme_md = Some(GoodReadme)
    /\ all_cargo_toml_file = Some(GoodCargo)
    /\ NoOutputs

\* --spec-fix on every schema of at most MaxNodes objects, and on the examples
InitDocs ==
    /\ Fresh
    /\ argv = <<"progenitor_fixes.py", "--spec-fix">>
    /\ \E s \in Schemas \cup ExampleSchemas :
         openapi_json = Some(Document(<<"GlobalContractIdentifierView">>, <<s>>))
    /\ GoodInputs

\* the pieces a generated source is put together from
Chunks ==
    { types_start, client_start, SubSeq(client_start, 1, 7), <<"x">>, <<"}", "\n">>,
      account_id_doc }

RECURSIVE Concatenations(_, _)
Concatenations(pieces, n) ==
    IF n = 0 THEN {<<>>}
    ELSE LET shorter == Concatenations(pieces, n - 1)
         IN  shorter \cup {c \o p : c \in shorter, p \in pieces}

\* --lib-fix on every source made of at most MaxChunks pieces
InitBufs ==
    /\ Fresh
    /\ argv = <<"progenitor_fixes.py", "--lib-fix">>
    /\ openapi_json = Some(Document(<<"GlobalContractIdentifierView">>, <<PlainView>>))
    /\ all_lib_rs_file \in {Some(b) : b \in Concatenations(Chunks, MaxChunks)}
    /\ readme_md = Some(GoodReadme)
    /\ all_cargo_toml_file = Some(GoodCargo)
    /\ NoOutputs

\* declarations of the types module
Derive == << "#[derive(", "Clone", ",", " ", "Debug", ")]", "\n" >>
DeriveComma == << "#[derive(", "Clone", ",", " ", ")]", "\n" >>
Enum(attributes, name) == attributes \o << "pub enum ", name, " ", "{", "}", "\n" >>
Struct(attributes, name) == attributes \o << "pub struct ", name, ";", "\n" >>
Impl(name) == << "impl ::std::fmt::Display for ", name, " ", "{", "}", "\n" >>

EnumNames ==
    { "RpcRequestValidationErrorKind", "RpcError",
      "JsonRpcResponseForRpcStatusResponseAndRpcError", "AccessKeyView" }

Declarations ==
    {Enum(Derive, n) : n \in EnumNames}
    \cup {Impl(n) : n \in EnumNames \ {"AccessKeyView"}}
    \cup { Enum(DeriveComma \o <<"#[serde(untagged)]", "\n", " ">>, "RpcError"),
           Enum(DeriveComma, "RpcRequestValidationErrorKind"),
           Enum(<<>>, "RpcError"),
           Struct(Derive, "RpcError") }

\* --lib-fix on every types module of at most MaxDecls declarations
InitDecls ==
    /\ Fresh
    /\ argv = <<"progenitor_fixes.py", "--lib-fix">>
    /\ openapi_json = Some(Document(<<"GlobalContractIdentifierView">>, <<PlainView>>))
    /\ \E ds \in Concatenations(Declarations, MaxDecls) :
         all_lib_rs_file = Some(types_start \o <<"\n">> \o ds \o <<"}", "\n">>
                                   \o client_start)
    /\ readme_md = Some(GoodReadme)
    /\ all_cargo_toml_file = Some(GoodCargo)
    /\ NoOutputs

Next ==
    \/ Load
    \/ Rename
    \/ SpecFix
    \/ NoSpecFix
    \/ Walk
    \/ WalkDone
    \/ WriteSpec
    \/ NoLibFix
    \/ ReadLib
    \/ Split
    \/ Strip
    \/ RemoveAccountId
    \/ RemoveNearGas
    \/ RemoveError
    \/ RemoveCryptoHash
    \/ Derives
    \/ NonExhaustive
    \/ Assemble
    \/ ReadReadme
    \/ WriteClientLib
    \/ WriteTypesLib
    \/ ReadCargo
    \/ Manifests
    \/ WriteClientCargo
    \/ WriteTypesCargo
    \/ Invoke

\* every command line, every input file present or missing
Spec == Init /\ [][Next]_vars
\* the expansion on all small schemas
SpecDocs == (Init \/ InitDocs) /\ [][Next]_vars
\* the splitter on all small sources
SpecBufs == (Init \/ InitBufs) /\ [][Next]_vars
\* the derive augmentation on all small types modules
SpecDecls == (Init \/ InitDecls) /\ [][Next]_vars

(***************************************************************************)
(* Properties of the expansion and of the rename.                          *)
(***************************************************************************)
\* the addresses reachable from a, a included
RECURSIVE Reach(_, _)
Reach(h, a) == {a} \cup UNION {Reach(h, h[a].vs[i]) : i \in 1..Len(h[a].vs)}

\* the product of the numbers in ns
RECURSIVE ProdTo(_, _)
ProdTo(ns, k) == IF k = 0 THEN 1 ELSE ProdTo(ns, k - 1) * ns[k]
ProdLen(ns) == Only({ProdTo(v, Len(v)) : v \in {ns}})

\* the walk is at a node
Visiting == pc = "walk" /\ todo # <<>>

\* how many alternatives each allOf item of the node at a offers
sizes(h, a) ==
    [i \in 1..Len(all_of(h, a)) |->
        IF HasKey(h[all_of(h, a)[i]], "oneOf")
        THEN Len(h[Get(h[all_of(h, a)[i]], "oneOf")].vs)
        ELSE 1]

\* every way to pick one position per allOf item
Choices(ns) ==
    LET top == CHOOSE m \in Range(ns) : \A x \in Range(ns) : x <= m
    IN  {c \in [1..Len(ns) -> 1..top] : \A j \in 1..Len(ns) : c[j] <= ns[j]}

\* the cells a choice picks: alternative c[j] of item j, or item j itself
Picked(h, a, c) ==
    [j \in 1..Len(c) |->
        IF HasKey(h[all_of(h, a)[j]], "oneOf")
        THEN h[Get(h[all_of(h, a)[j]], "oneOf")].vs[c[j]]
        ELSE all_of(h, a)[j]]

\* the keys of a dict other than allOf and oneOf, in order
OtherKeys(c) == SelectSeq(c.ks, LAMBDA k : k \notin {"allOf", "oneOf"})

ProductStep ==
    (Visiting /\ Conflicting(heap, Head(todo))) =>
        LET a == Head(todo)
            ns == sizes(heap, a)
            entries == heap'[Get(heap'[a], "oneOf")].vs
            members(k) == heap'[Get(heap'[entries[k]], "allOf")].vs
        IN  /\ ~HasKey(heap'[a], "allOf")
            /\ HasKey(heap'[a], "oneOf")
            /\ heap'[Get(heap'[a], "oneOf")].t = "list"
            /\ Len(entries) = ProdLen(ns)
            /\ \A k \in 1..Len(entries) :
                  /\ IsDict(heap'[entries[k]])
                  /\ heap'[entries[k]].ks = <<"allOf">>
                  /\ heap'[Get(heap'[entries[k]], "allOf")].t = "list"
                  /\ \E c \in Choices(ns) : members(k) = Picked(heap, a, c)
                  /\ \A j \in 1..Len(members(k)) :
                        heap'[members(k)[j]] = heap[members(k)[j]]
            /\ \A c \in Choices(ns) :
                  \E k \in 1..Len(entries) : members(k) = Picked(heap, a, c)

\* C1: a walk step at a node whose allOf has two or more items with oneOf
\* replaces allOf by a oneOf list of exactly s1*...*sN entries; each entry
\* is {allOf: [...]} with one member per allOf item in the order of the items,
\* an alternative of the item if it has oneOf and the item itself, unchanged,
\* if not; every choice of alternatives is the member list of an entry.
C1_ProductExpansion == [][ProductStep]_vars

\* an expansion has built a oneOf list of two or more combinations
C1_Expanded ==
    /\ spec > 0
    /\ \E a \in 1..Len(heap) :
          /\ HasKey(heap[a], "oneOf")
          /\ Get(heap[a], "oneOf") > spec
          /\ Len(heap[Get(heap[a], "oneOf")].vs) >= 2
          /\ \A k \in 1..Len(heap[Get(heap[a], "oneOf")].vs) :
                Len(heap[Get(heap[heap[Get(heap[a], "oneOf")].vs[k]], "allOf")].vs) >= 2

\* C2: after the walk of a --spec-fix run no node of the document has an
\* allOf with two or more items that have oneOf, and a second run of the
\* walk, on the file the first run wrote, writes the same document.
C2_NoConflictLeft ==
    (pc = "write" /\ Flag("--spec-fix")) =>
        /\ \A a \in Reach(heap, spec) : ~Conflicting(heap, a)
        /\ runs >= 2 => json_dump(heap, spec) = openapi_json[1]

RenameStep ==
    (pc = "rename" /\ pc' = "spec_fix") =>
        LET e == GlobalContractIdentifierView(heap, spec)
        IN  /\ GlobalContractIdentifierView(heap', spec) = e
            /\ Len(heap') = Len(heap)
            /\ \A b \in 1..Len(heap) : b # e => heap'[b] = heap[b]
            /\ ~HasKey(heap[e], "anyOf") => heap' = heap
            /\ HasKey(heap[e], "anyOf") =>
                  /\ ~HasKey(heap'[e], "anyOf")
                  /\ HasKey(heap'[e], "oneOf")
                  /\ Get(heap'[e], "oneOf") = Get(heap[e], "anyOf")
                  /\ Range(heap'[e].ks) = (Range(heap[e].ks) \ {"anyOf"}) \cup {"oneOf"}
                  /\ \A k \in Range(heap[e].ks) \ {"anyOf", "oneOf"} :
                        Get(heap'[e], k) = Get(heap[e], k)
            /\ RenameAnyOf(heap', e) = heap'
            /\ runs >= 2 => heap' = heap

\* C3: the rename does nothing to an entry without anyOf; with anyOf, the
\* entry loses the key and its oneOf is the array anyOf held, every other
\* key of the entry and every other value of the document is as before;
\* renaming again changes nothing, within a run and in the next run.
C3_RenameOnce == [][RenameStep]_vars

\* the file had anyOf in the entry and the rename is done
C3_Renamed ==
    /\ pc = "spec_fix"
    /\ openapi_json = Some(Document(<<"GlobalContractIdentifierView", "RpcError">>,
                                    <<AnyOfView, ExampleSchema>>))
    /\ HasKey(heap[GlobalContractIdentifierView(heap, spec)], "oneOf")
    /\ ~HasKey(heap[GlobalContractIdentifierView(heap, spec)], "anyOf")

\* C9 as stated: the walk never rewrites a node an expansion of the same
\* walk has built.
C9_BuiltNodesLeftAlone ==
    [][(Visiting /\ Head(todo) > spec) => heap'[Head(todo)] = heap[Head(todo)]]_vars

RedescendStep ==
    Visiting =>
        LET a == Head(todo)
        IN  /\ Conflicting(heap, a) =>
                  /\ Get(heap'[a], "oneOf") > Len(heap)
                  /\ Get(heap'[a], "oneOf") \in Range(todo')
            /\ (a > spec /\ heap[a].t = "list") => todo' = heap[a].vs \o Tail(todo)
            /\ (a > spec /\ IsDict(heap[a])) =>
                  IF Conflicting(heap, a)
                  THEN /\ ~HasKey(heap'[a], "allOf")
                       /\ Get(heap'[a], "oneOf") > Len(heap)
                  ELSE /\ heap' = heap
                       /\ todo' = heap[a].vs \o Tail(todo)

\* C9, amended: the walk goes on into the oneOf list an expansion has just
\* built; each combination in it is visited, and one whose members include
\* two or more with oneOf at that visit is expanded in the same walk, while
\* one with fewer is left as it was built.
C9_Redescends == [][RedescendStep]_vars

\* a combination built by the walk has been expanded by it
C9_CombinationExpanded ==
    /\ spec > 0
    /\ pc = "write"
    /\ \E a \in (spec + 1)..Len(heap) :
          /\ IsDict(heap[a])
          /\ HasKey(heap[a], "oneOf")
          /\ a \in Reach(heap, spec)

FrameStep ==
    Visiting =>
        LET a == Head(todo)
            bearing == {i \in 1..Len(all_of(heap, a)) :
                           HasKey(heap[all_of(heap, a)[i]], "oneOf")}
        IN  /\ ~Conflicting(heap, a) => heap' = heap
            /\ Conflicting(heap, a) =>
                  /\ \A b \in 1..Len(heap) : b # a => heap'[b] = heap[b]
                  /\ Range(heap'[a].ks) = (Range(heap[a].ks) \ {"allOf"}) \cup {"oneOf"}
                  /\ Get(heap'[a], "oneOf") > Len(heap)
                  /\ OtherKeys(heap'[a]) = OtherKeys(heap[a])
                  /\ \A k \in Range(OtherKeys(heap[a])) :
                        Get(heap'[a], k) = Get(heap[a], k)
                  /\ \A b \in (Len(heap) + 1)..Len(heap') :
                        IsDict(heap'[b]) => heap'[b].ks = <<"allOf">>
                  /\ \A i \in bearing :
                        \A k \in Range(heap[all_of(heap, a)[i]].ks) \ {"oneOf"} :
                            Get(heap[all_of(heap, a)[i]], k)
                                \notin Reach(heap', Get(heap'[a], "oneOf"))

RECURSIVE TextOf(_, _, _)
TextOf(s, lo, hi) ==
    IF lo > hi THEN ""
    ELSE IF lo = hi THEN s[lo]
    ELSE TextOf(s, lo, (lo + hi) \div 2) \o TextOf(s, (lo + hi) \div 2 + 1, hi)
Text(s) == TextOf(s, 1, Len(s))

\* C4: when the types marker occurs and the client marker first occurs
\* after it, the three slices follow one another without gap or overlap
\* (dependencies ends where types starts, types ends where client starts)
\* and dependencies + types + client is the source read.
C4_Contiguous ==
    (pc = "strip" /\ types_index >= 0 /\ client_index > types_index) =>
        /\ dependencies \o types \o client = lib_rs
        /\ CharLen(dependencies) = types_index
        /\ CharLen(dependencies) + CharLen(types) = client_index
        /\ client_index + CharLen(client) = CharLen(lib_rs)
        /\ SubSeq(types, 1, Len(types_start)) = types_start
        /\ SubSeq(client, 1, Len(client_start)) = client_start

\* a source with text before the types marker has been split
C4_SplitInThree ==
    /\ pc = "strip"
    /\ types_index > 0
    /\ client_index > types_index
    /\ dependencies # <<>> /\ types # <<>> /\ client # <<>>

\* the positions of the enum declarations of a text, in order
Enums(t) ==
    LET seq(E) == <<>> \o [k \in 1..Cardinality(E) |->
                             CHOOSE q \in E : Cardinality({r \in E : r < q}) = k - 1]
    IN  Only({seq(E) : E \in {{q \in 1..(Len(t) - 1) : t[q] = "pub enum "}}})

\* the derive list attached to the enum declared at q, if the pattern of
\* line 125 finds one
DerivesOf(t, q) ==
    LET attached(I) == IF I = {} THEN None ELSE Some(derive_match(t, Min(I)).g1)
    IN  Only({attached(I) :
                 I \in {{i \in 1..(q - 1) : /\ t[i] = "#[derive("
                                            /\ derive_match(t, i).ok
                                            /\ derive_match(t, i).last = q + 1}}})

\* what the step of lines 110-128 does to the derive list of each enum;
\* exempt are the names the step is to leave alone
DerivesStep(exempt(_)) ==
    (pc = "derives" /\ pc' = "non_exhaustive") =>
        \A before \in {Enums(types)}, after \in {Enums(types')},
           with_display \in {types_with_display(types)} :
            /\ Len(after) = Len(before)
            /\ \A k \in 1..Len(before) :
                  \A name \in {types[before[k] + 1]},
                     was \in {DerivesOf(types, before[k])},
                     now \in {DerivesOf(types', after[k])} :
                      /\ types'[after[k] + 1] = name
                      /\ IF was # None /\ NameRule(name) /\ ~exempt(name)
                         THEN /\ now # None
                              /\ "thiserror::Error" \in Range(now[1])
                              /\ "thiserror::Error" \notin Range(was[1])
                              /\ ("strum_macros::Display" \in Range(now[1]))
                                    <=> (name \notin with_display)
                              /\ Range(was[1]) \ {",", " "} \subseteq Range(now[1])
                         ELSE now = was

NoName(n) == FALSE
JsonRpcResponse(n) == StartsWith(n, "JsonRpcResponseFor")

\* C5 as stated: every enum with a derive list whose name is
\* RpcRequestValidationErrorKind or a CamelCase name ending in Error gets
\* thiserror::Error, and gets strum_macros::Display if and only if no Display
\* implementation for its name is in the text.
C5_EveryMatchedEnum == [][DerivesStep(NoName)]_vars

\* C5, amended: the same for every such enum whose name does not start with
\* JsonRpcResponseFor; the derive list of an enum whose name starts with
\* JsonRpcResponseFor is left as it is.
C5_ExceptJsonRpcResponse == [][DerivesStep(JsonRpcResponse)]_vars

\* an error enum with a Display implementation of its own has thiserror::Error
\* and no strum_macros::Display
C5_CustomDisplayKept ==
    /\ pc = "non_exhaustive"
    /\ "RpcError" \in types_with_display(types)
    /\ \E k \in 1..Len(Enums(types)) :
          /\ types[Enums(types)[k] + 1] = "RpcError"
          /\ DerivesOf(types, Enums(types)[k]) # None
          /\ "thiserror::Error" \in Range(DerivesOf(types, Enums(types)[k])[1])
          /\ "strum_macros::Display" \notin Range(DerivesOf(types, Enums(types)[k])[1])

\* evidence, in what the run has done so far, of each pass
Walked == pc = "walk" \/ <<"print", "spec fixed">> \in Range(io)
Splitting == <<"r", near_openapi_lib_rs>> \in Range(io)
Rewritten ==
    /\ <<"w", filename>> \in Range(io)
    /\ openapi_json = Some(json_dump(heap, spec))
    /\ ~HasKey(heap[GlobalContractIdentifierView(heap, spec)], "anyOf")

\* C6: the walk runs only when --spec-fix is the one argument, the splitter
\* only when --lib-fix is the one argument and only after openapi.json has
\* been written back with the rename applied; no run does both; a run that
\* ends normally has renamed and rewritten openapi.json whatever the mode.
C6_Modes ==
    /\ Walked => argv = <<"progenitor_fixes.py", "--spec-fix">>
    /\ Splitting =>
          /\ argv = <<"progenitor_fixes.py", "--lib-fix">>
          /\ Rewritten
          /\ IndexOf(io, <<"w", filename>>) < IndexOf(io, <<"r", near_openapi_lib_rs>>)
    /\ ~(Walked /\ Splitting)
    /\ pc \in {"lib_fix", "done"} => Rewritten
    /\ (pc = "done" /\ argv = <<"progenitor_fixes.py", "--spec-fix">>) => Walked
    /\ (pc = "done" /\ argv = <<"progenitor_fixes.py", "--lib-fix">>) => Splitting

\* a --lib-fix run has gone through the splitter to its end
C6_SplitterRan ==
    /\ pc = "done"
    /\ Splitting
    /\ <<"print", "lib fixed">> \in Range(io)
    /\ ~Walked

Errors == {"FileNotFoundError", "KeyError", "ValueError"}
SourceSearches ==
    {"split", "remove_account_id", "remove_near_gas", "remove_error", "remove_crypto_hash"}
Removals == SourceSearches \ {"split"}

\* C7 as stated: no search of the splitter for a marker, the readme marker
\* included, ends the run with an error.
C7_NoSearchRaises ==
    [][(pc \in SourceSearches \/ (pc = "read_readme" /\ readme_md # None))
            => pc' \notin Errors]_vars

SearchStep ==
    /\ pc \in SourceSearches => pc' \notin Errors
    /\ pc = "split" =>
          /\ (types_index' = -1) <=> (Occurrences(lib_rs, types_start) = {})
          /\ (client_index' = -1) <=> (Occurrences(lib_rs, client_start) = {})
          /\ (types_index' = -1 /\ lib_rs # <<>>) =>
                CharLen(dependencies') = CharLen(lib_rs) - 1
          /\ (client_index' = -1 /\ lib_rs # <<>>) => CharLen(client') = 1
    /\ pc \in Removals =>
          /\ Len(cuts') = Len(cuts) + 1
          /\ (cuts'[Len(cuts')] = <<-1, -1>>) => Text(types') = Text(types)
    /\ (pc = "read_readme" /\ readme_md # None) =>
          IF readme_marker \in Range(readme_md[1])
          THEN pc' = "write_client_lib"
          ELSE /\ pc' = "ValueError"
               /\ UNCHANGED outFiles
               /\ \A i \in 1..Len(io') : io'[i][1] = "w" => io'[i][2] = filename
    /\ (pc' = "done" /\ Splitting') =>
          /\ client_lib_rs_file' = Some(client_lib_rs')
          /\ types_lib_rs_file' = Some(types_lib_rs')
          /\ client_cargo_toml_file' = Some(client_cargo_toml')
          /\ types_cargo_toml_file' = Some(types_cargo_toml')

\* C7, amended: a marker searched for in the generated source and not found
\* is not detected: the search gives -1, the slices and the removals go on
\* with it, none of these steps raises, and the pass writes its four files.
\* The readme marker is looked up another way: when no line of the readme is
\* the marker the lookup raises ValueError and the pass writes nothing.
C7_SourceSearchesSilent == [][SearchStep]_vars

\* a source without any marker has gone through the whole pass
C7_DegenerateOutput ==
    /\ pc = "done"
    /\ Splitting
    /\ types_index = -1 /\ client_index = -1
    /\ cuts = << <<-1, -1>>, <<-1, -1>>, <<-1, -1>>, <<-1, -1>> >>
    /\ client_lib_rs_file = Some(client_lib_rs)
    /\ types_lib_rs_file = Some(types_lib_rs)

\* the files a file written by the script is derived from
Needs(path) ==
    CASE path = filename -> {filename}
      [] path = client_lib_rs_path -> {near_openapi_lib_rs, readme_path}
      [] path = types_lib_rs_path -> {near_openapi_lib_rs}
      [] path = client_cargo_toml_path -> {near_openapi_cargo_toml}
      [] path = types_cargo_toml_path -> {near_openapi_cargo_toml}

ReadsFirst(t) ==
    \A i \in 1..Len(t) :
        t[i][1] = "w" => \A p \in Needs(t[i][2]) : \E j \in 1..(i - 1) : t[j] = <<"r", p>>

Written(t) == {t[i][2] : i \in {j \in 1..Len(t) : t[j][1] = "w"}}

FailedAt(path) ==
    /\ pc' \in Errors
    /\ io' # <<>>
    /\ io'[Len(io')] = <<"r", path>>

NoRollbackStep ==
    /\ pc \notin Errors
    /\ ReadsFirst(io')
    /\ pc' \in Errors => UNCHANGED <<openapi_json, outFiles>>
    /\ openapi_json' # openapi_json => pc = "write"
    /\ client_lib_rs_file' # client_lib_rs_file => pc = "write_client_lib"
    /\ types_lib_rs_file' # types_lib_rs_file => pc = "write_types_lib"
    /\ client_cargo_toml_file' # client_cargo_toml_file => pc = "write_client_cargo"
    /\ types_cargo_toml_file' # types_cargo_toml_file => pc = "write_types_cargo"
    /\ (FailedAt(near_openapi_lib_rs) \/ FailedAt(readme_path)) =>
          /\ openapi_json' = Some(json_dump(heap', spec'))
          /\ Written(io') = {filename}
    /\ FailedAt(near_openapi_cargo_toml) =>
          /\ openapi_json' = Some(json_dump(heap', spec'))
          /\ client_lib_rs_file' = Some(client_lib_rs')
          /\ types_lib_rs_file' = Some(types_lib_rs')
          /\ Written(io') = {filename, client_lib_rs_path, types_lib_rs_path}

\* C8: a file is written only after every file it is derived from has been
\* read; a step that fails changes no file and ends the run, so what was
\* written before it stays and what comes after it is not written: the
\* rewritten openapi.json stays when the splitter fails, and the two sources
\* stay, with no manifest written, when the manifest template is missing.
C8_NoRollback == [][NoRollbackStep]_vars

\* the manifest template was missing: both sources are written, no manifest
C8_ManifestMissing ==
    /\ pc = "FileNotFoundError"
    /\ io # <<>>
    /\ io[Len(io)] = <<"r", near_openapi_cargo_toml>>
    /\ client_lib_rs_file = Some(client_lib_rs)
    /\ types_lib_rs_file = Some(types_lib_rs)
    /\ client_cargo_toml_file = None
    /\ types_cargo_toml_file = None

====
